---- MODULE Spec2Model ----
(***************************************************************************)
(* A model of ditto_ros_bridge/bridge_node.py: the DittoROS2Bridge node.   *)
(*                                                                         *)
(* Text is modelled as a sequence of tokens.  A token is one character     *)
(* (":", ".", "/", " ", "-", ...) or a word of alphanumeric characters     *)
(* that the code never takes apart ("data", "sensor", "a", ...).           *)
(***************************************************************************)
EXTENDS Integers, Sequences, FiniteSets, TLC

(***************************************************************************)
(* Bounds of the model.                                                    *)
(***************************************************************************)
\* lines one connection delivers before the stream ends or fails
MaxLines == 4
\* process_thing calls made one after the other on one registry
MaxRouted == 2
\* tokens of the names given to sanitize_topic_name
MaxName == 3
\* non-blank lines the stream sends in one block
MaxBlock == 2
\* connection attempts that are told apart (the counter saturates here)
MaxAttempts == 2
\* calls each concurrent caller of get_or_create_publisher makes
MaxCalls == 2
\* lines fed to the decoder on its own
MaxInput == 4

(***************************************************************************)
(* Text helpers.                                                           *)
(***************************************************************************)
\* the positions of s that hold no white space
Inked(s) == {i \in 1..Len(s) : s[i] # " "}

\* str.strip(): leading and trailing white space removed
strip(s) ==
    IF Inked(s) = {} THEN << >>
    ELSE SubSeq(s, CHOOSE i \in Inked(s) : \A j \in Inked(s) : i <= j,
                   CHOOSE i \in Inked(s) : \A j \in Inked(s) : j <= i)

\* the index of the first token of s equal to c, 0 when there is none
IndexOf(s, c) ==
    IF \E i \in 1..Len(s) : s[i] = c
    THEN CHOOSE i \in 1..Len(s) : s[i] = c /\ \A j \in 1..(i - 1) : s[j] # c
    ELSE 0

\* the positions of the separator in s, and the k-th of them (0 for k = 0,
\* Len(s) + 1 for the one past the last)
SepAt(s, sep) == {i \in 1..Len(s) : s[i] = sep}

NthSep(s, sep, k) ==
    IF k = 0 THEN 0
    ELSE IF k > Cardinality(SepAt(s, sep)) THEN Len(s) + 1
    ELSE CHOOSE p \in SepAt(s, sep) :
             Cardinality({q \in SepAt(s, sep) : q < p}) = k - 1

\* str.split(sep): the pieces between the separators, empty pieces kept
split(s, sep) ==
    [k \in 1..(Cardinality(SepAt(s, sep)) + 1) |->
        SubSeq(s, NthSep(s, sep, k - 1) + 1, NthSep(s, sep, k) - 1)]

(***************************************************************************)
(* sanitize_topic_name (lines 42-53).                                      *)
(***************************************************************************)
\* the words (runs of alphanumerics and '_') the model's texts are built from
Words ==
    {"a", "b", "1", "org", "acme", "thing", "x", "dev1", "t1", "m1", "m2",
     "data", "id", "ping", "metadata", "sensor", "temperature",
     "humidity", "pressure", "imu", "traffic_light_status", "alerts",
     "relationships", "status", "environment", "traffic", "crop", "water",
     "energy", "production", "unknown", "fire", "flood", "partOf", "hot",
     "foo", "True", "False", "None", "0", "2", "3", "21"}

\* the class [0-9a-zA-Z_/~{}] of the regular expression of line 53
AllowedToken(c) == c \in Words \cup {"_", "/", "~", "{", "}"}

\* name.replace(':', '_').replace('.', '_') of line 45
ReplaceColonDot(name) ==
    [i \in 1..Len(name) |-> IF name[i] \in {":", "."} THEN "_" ELSE name[i]]

\* a sanitizer that puts a '/' in front of every name
AlwaysLeadingSlash(name) == << "/" >> \o name

\* lines 48-49: a '/' is put in front unless the name starts with one
EnsureLeadingSlash(name) ==
    IF name # << >> /\ Head(name) = "/" THEN name ELSE << "/" >> \o name

\* a sanitizer without the substitution of line 53
ReplaceInvalidSkipped(name) == name

\* re.sub(r'[^0-9a-zA-Z_/~{}]', '_', name) of line 53
ReplaceInvalid(name) ==
    [i \in 1..Len(name) |-> IF AllowedToken(name[i]) THEN name[i] ELSE "_"]

\* the three steps in the order of the code, each applied to the value the
\* step before it produced
sanitize_topic_name(name) ==
    CHOOSE r \in {ReplaceInvalid(slashed) :
                     slashed \in {EnsureLeadingSlash(replaced) :
                                      replaced \in {ReplaceColonDot(name)}}} : TRUE

(***************************************************************************)
(* The publisher registry: get_or_create_publisher (lines 55-64).          *)
(*                                                                         *)
(* A bus state b is a record                                               *)
(*   reg   : _topic_publishers, a function from topic names to handles     *)
(*   made  : how many channels create_publisher has made, per topic        *)
(*   logs  : how many "Created new publisher" lines were logged, per topic *)
(*   n     : how many channels create_publisher has made in all            *)
(* A handle is [topic, serial, kind]; serial numbers the channels made for  *)
(* one topic, so two channels never share a handle.                        *)
(***************************************************************************)
EmptyBus == [reg |-> << >>, made |-> << >>, logs |-> << >>, n |-> 0]

\* the count a counting function holds for key k (0 when k is absent)
CountOf(f, k) == IF k \in DOMAIN f THEN f[k] ELSE 0

\* f with the count of key k raised by one
Bump(f, k) ==
    [x \in DOMAIN f \cup {k} |-> IF x = k THEN CountOf(f, k) + 1 ELSE f[x]]

\* a registry that makes a channel at every call
MustCreateAlways(b, topic) == TRUE

\* line 60: the membership test that guards the creation
MustCreate(b, topic) == topic \notin DOMAIN b.reg

\* self.create_publisher(msg_type, topic_name, 10): the handle of the new channel
NewHandle(b, kind, topic) ==
    [topic |-> topic, serial |-> CountOf(b.made, topic) + 1, kind |-> kind]

\* the bus once create_publisher has made a channel for the topic
MakeChannel(b, topic) == [b EXCEPT !.made = Bump(b.made, topic), !.n = b.n + 1]

\* the assignment of line 61: the handle is recorded under the sanitized name
StorePublisher(b, topic, handle) ==
    [b EXCEPT !.reg = [x \in DOMAIN b.reg \cup {topic} |->
                          IF x = topic THEN handle ELSE b.reg[x]]]

\* line 62: the creation is logged
LogCreation(b, topic) == [b EXCEPT !.logs = Bump(b.logs, topic)]

\* lines 61-62
CreateAndStore(b, kind, topic) ==
    LogCreation(StorePublisher(MakeChannel(b, topic), topic, NewHandle(b, kind, topic)),
                topic)

\* line 64: the handle recorded for the topic is returned
ReturnPublisher(b, topic) == [raised |-> FALSE, bus |-> b, pub |-> b.reg[topic]]

\* lines 60-64 for a sanitized name.  create_publisher raises for the names the
\* bus refuses (an invalid topic name, a context that was shut down), and the
\* exception leaves the call before anything is recorded or logged.
LookupOrCreate(b, kind, topic, refused) ==
    IF MustCreate(b, topic)
    THEN IF topic \in refused
         THEN [raised |-> TRUE, bus |-> b, pub |-> << >>]
         ELSE CHOOSE g \in {ReturnPublisher(b2, topic) :
                               b2 \in {CreateAndStore(b, kind, topic)}} : TRUE
    ELSE ReturnPublisher(b, topic)

\* get_or_create_publisher(msg_type, topic_name) called by the one worker.
\* The result: raised (an exception leaves the call), bus (the bus after the
\* call), pub (the handle returned, when nothing was raised).
get_or_create_publisher(b, kind, rawTopic, refused) ==
    CHOOSE g \in {LookupOrCreate(b, kind, topic, refused) :
                     topic \in {sanitize_topic_name(rawTopic)}} : TRUE

(***************************************************************************)
(* JSON values, as json.loads builds them.                                 *)
(* A number is held in tenths (215 is 21.5); a string is a token sequence; *)
(* an object is the sequence of its <<key, value>> members in the order    *)
(* of the text (a Python dict keeps insertion order).                      *)
(***************************************************************************)
JNum(n) == [num |-> n]
JStr(s) == [str |-> s]
JBool(b) == [bool |-> b]
JNull == [null |-> TRUE]
JObj(members) == [obj |-> members]

IsNum(v) == DOMAIN v = {"num"}
IsStr(v) == DOMAIN v = {"str"}
IsBool(v) == DOMAIN v = {"bool"}
IsObj(v) == DOMAIN v = {"obj"}

\* key in d
HasKey(d, k) == \E i \in 1..Len(d.obj) : d.obj[i][1] = k

\* d[key]
Lookup(d, k) == d.obj[CHOOSE i \in 1..Len(d.obj) : d.obj[i][1] = k][2]

\* d.get(key, default)
Get(d, k, default) == IF HasKey(d, k) THEN Lookup(d, k) ELSE default

(***************************************************************************)
(* The coercions of process_thing.  Each gives [ok, val]: ok is FALSE when *)
(* Python raises (ValueError, TypeError, or the message's field setter     *)
(* refusing the type).                                                     *)
(***************************************************************************)
\* the numeric texts of the model and the number (in tenths) each denotes
Numerals ==
    << << <<"21", ".", "5">>, 215 >>, << <<"3">>, 30 >>, << <<"0">>, 0 >> >>

IsNumeral(s) == \E i \in 1..Len(Numerals) : Numerals[i][1] = s

NumeralValue(s) == Numerals[CHOOSE i \in 1..Len(Numerals) : Numerals[i][1] = s][2]

Raised == [ok |-> FALSE, val |-> << >>]

Value(x) == [ok |-> TRUE, val |-> x]

\* float(v): a float field, in tenths
ToFloat(v) ==
    IF IsNum(v) THEN Value(v.num)
    ELSE IF IsBool(v) THEN Value(IF v.bool THEN 10 ELSE 0)
    ELSE IF IsStr(v) /\ IsNumeral(strip(v.str)) THEN Value(NumeralValue(strip(v.str)))
    ELSE Raised

\* int(v): a number is truncated towards zero; a text must be an integer numeral
ToInt(v) ==
    IF IsNum(v) THEN Value(IF v.num >= 0 THEN v.num \div 10 ELSE -((-v.num) \div 10))
    ELSE IF IsBool(v) THEN Value(IF v.bool THEN 1 ELSE 0)
    ELSE IF IsStr(v) /\ IsNumeral(strip(v.str)) /\ "." \notin {v.str[i] : i \in 1..Len(v.str)}
         THEN Value(NumeralValue(strip(v.str)) \div 10)
    ELSE Raised

\* bool(v): Python truthiness
ToBool(v) ==
    IF IsNum(v) THEN Value(v.num # 0)
    ELSE IF IsBool(v) THEN Value(v.bool)
    ELSE IF IsStr(v) THEN Value(v.str # << >>)
    ELSE IF IsObj(v) THEN Value(v.obj # << >>)
    ELSE Value(FALSE)

\* a string field takes the value as it is; its setter refuses anything but a str
ToStr(v) == IF IsStr(v) THEN Value(v.str) ELSE Raised

Coerce(conv, v) ==
    CASE conv = "float" -> ToFloat(v)
      [] conv = "int" -> ToInt(v)
      [] conv = "bool" -> ToBool(v)
      [] conv = "str" -> ToStr(v)

(***************************************************************************)
(* process_thing (lines 125-341).                                          *)
(*                                                                         *)
(* A run state r of one process_thing call is a record                     *)
(*   bus    : the bus state (registry and its counters)                    *)
(*   out    : the messages published by this call so far, in order, each   *)
(*            [pub, msg] with pub the handle it was published through      *)
(*   raised : an exception is on its way to the except clause of line 338  *)
(***************************************************************************)
\* f"{x}" of a JSON value
FormatText(v) ==
    IF IsStr(v) THEN v.str
    ELSE IF IsNum(v) THEN << ToString(v.num \div 10) >>
    ELSE IF IsBool(v) THEN << IF v.bool THEN "True" ELSE "False" >>
    ELSE << "None" >>

Field(field, prop, conv, default) ==
    [field |-> field, prop |-> prop, conv |-> conv, default |-> default]

\* a table whose numeric default is 1.0
F1 == JNum(10)

\* the default 0.0 (and 0) of the numeric fields
F0 == JNum(0)

\* the if-blocks of lines 155-336 in the order of the source; shape "scalar" is a
\* block that publishes one message, "alerts" and "relationships" are the two loops
Parts == <<
    [key |-> "temperature", shape |-> "scalar", kind |-> "Temperature",
     suffix |-> <<"/", "sensor", "/", "temperature">>,
     fields |-> << Field("temperature", "value", "float", F0) >>],
    [key |-> "traffic_light_status", shape |-> "scalar", kind |-> "TrafficLight",
     suffix |-> <<"/", "traffic_light_status">>,
     fields |-> << Field("current_state", "current_state", "str", JStr(<<"unknown">>)),
                   Field("time_to_change", "time_to_change", "float", F0) >>],
    [key |-> "humidity", shape |-> "scalar", kind |-> "Humidity",
     suffix |-> <<"/", "sensor", "/", "humidity">>,
     fields |-> << Field("humidity", "value", "float", F0) >>],
    [key |-> "pressure", shape |-> "scalar", kind |-> "Pressure",
     suffix |-> <<"/", "sensor", "/", "pressure">>,
     fields |-> << Field("pressure", "value", "float", F0) >>],
    [key |-> "imu", shape |-> "scalar", kind |-> "Imu",
     suffix |-> <<"/", "sensor", "/", "imu">>,
     fields |-> << Field("linear_acceleration_x", "accel_x", "float", F0),
                   Field("linear_acceleration_y", "accel_y", "float", F0),
                   Field("linear_acceleration_z", "accel_z", "float", F0),
                   Field("angular_velocity_x", "gyro_x", "float", F0),
                   Field("angular_velocity_y", "gyro_y", "float", F0),
                   Field("angular_velocity_z", "gyro_z", "float", F0) >>],
    [key |-> "alerts", shape |-> "alerts", kind |-> "Alert",
     suffix |-> <<"/", "alerts">>,
     fields |-> << Field("severity", "severity", "int", F0) >>],
    [key |-> "relationships", shape |-> "relationships", kind |-> "Relationship",
     suffix |-> <<"/", "relationships">>,
     fields |-> << Field("child_thing_id", "", "thing_id", F0),
                   Field("parent_thing_id", "target", "str", JStr(<< >>)) >>],
    [key |-> "status", shape |-> "scalar", kind |-> "MachineStatus",
     suffix |-> <<"/", "status">>,
     fields |-> << Field("machine_id", "", "thing_id", F0),
                   Field("status", "value", "str", JStr(<< >>)),
                   Field("uptime", "uptime", "float", F0),
                   Field("efficiency", "efficiency", "float", F0) >>],
    [key |-> "environment", shape |-> "scalar", kind |-> "EnvironmentalData",
     suffix |-> <<"/", "sensor", "/", "environment">>,
     fields |-> << Field("air_quality_index", "aqi", "float", F0),
                   Field("noise_level", "noise", "float", F0),
                   Field("light_intensity", "light", "float", F0),
                   Field("co2_level", "co2", "float", F0) >>],
    [key |-> "traffic", shape |-> "scalar", kind |-> "TrafficData",
     suffix |-> <<"/", "traffic">>,
     fields |-> << Field("vehicle_count", "count", "int", F0),
                   Field("average_speed", "avg_speed", "float", F0),
                   Field("congestion_level", "congestion", "int", F0) >>],
    [key |-> "crop", shape |-> "scalar", kind |-> "CropData",
     suffix |-> <<"/", "sensor", "/", "crop">>,
     fields |-> << Field("crop_type", "type", "str", JStr(<< >>)),
                   Field("soil_moisture", "moisture", "float", F0),
                   Field("soil_ph", "ph", "float", F0),
                   Field("growth_stage", "growth", "float", F0) >>],
    [key |-> "water", shape |-> "scalar", kind |-> "WaterManagement",
     suffix |-> <<"/", "sensor", "/", "water">>,
     fields |-> << Field("water_level", "level", "float", F0),
                   Field("flow_rate", "flow", "float", F0),
                   Field("turbidity", "turbidity", "float", F0),
                   Field("valve_status", "valve_open", "bool", JBool(FALSE)) >>],
    [key |-> "energy", shape |-> "scalar", kind |-> "EnergyConsumption",
     suffix |-> <<"/", "energy">>,
     fields |-> << Field("total_consumption", "total", "float", F0),
                   Field("renewable_percentage", "renewable", "float", F0),
                   Field("grid_load", "grid_load", "float", F0) >>],
    [key |-> "production", shape |-> "scalar", kind |-> "ProductionLine",
     suffix |-> <<"/", "production">>,
     fields |-> << Field("line_id", "", "thing_id", F0),
                   Field("units_produced", "units", "int", F0),
                   Field("defect_count", "defects", "int", F0),
                   Field("overall_equipment_effectiveness", "oee", "float", F0) >> ]
    >>

\* the value one field of a message is given: thing_id itself, or the coerced
\* property (its default when the property is absent)
FieldValue(f, props, thing_id) ==
    IF f.conv = "thing_id" THEN ToStr(thing_id)
    ELSE Coerce(f.conv, Get(props, f.prop, f.default))

\* the message built from a field list: [ok, val]; ok is FALSE when a coercion
\* or a field setter raises
BuildMessage(kind, fields, props, thing_id) ==
    IF \A i \in 1..Len(fields) : FieldValue(fields[i], props, thing_id).ok
    THEN Value([kind |-> kind,
                fields |-> [i \in 1..Len(fields) |->
                               << fields[i].field,
                                  FieldValue(fields[i], props, thing_id).val >>]])
    ELSE Raised

Fail(r) == [r EXCEPT !.raised = TRUE]

\* pub.publish(msg) through the handle get_or_create_publisher returned
PublishThrough(r, g, msg) ==
    IF g.raised THEN Fail(r)
    ELSE [r EXCEPT !.bus = g.bus,
                   !.out = Append(r.out, [pub |-> g.pub, msg |-> msg])]

\* a router that publishes every kind of message of a thing on one topic
TopicWithoutSuffix(thing_id, suffix) == FormatText(thing_id)

\* f"{thing_id}/<suffix>": the raw topic name of a part (lines 147, 159, ...)
TopicFor(thing_id, suffix) == FormatText(thing_id) \o suffix

\* pub = self.get_or_create_publisher(Kind, f"{thing_id}/<suffix>"); pub.publish(msg)
Publish(r, kind, thing_id, suffix, msg, refused) ==
    CHOOSE r2 \in {PublishThrough(r, g, msg) :
                      g \in {get_or_create_publisher(r.bus, kind,
                                 TopicFor(thing_id, suffix), refused)}} : TRUE

\* lines 135-152: the metadata message of a thing that has a location attribute
LocationStep(r, thing_id, attributes, refused) ==
    IF r.raised THEN r
    ELSE IF ~IsObj(attributes) THEN Fail(r)
    ELSE IF ~HasKey(attributes, "location") THEN r
    ELSE LET location == Lookup(attributes, "location")
             point == IF IsObj(location)
                      THEN BuildMessage("Point",
                               << Field("x", "longitude", "float", F0),
                                  Field("y", "latitude", "float", F0),
                                  Field("z", "elevation", "float", F0) >>,
                               location, thing_id)
                      ELSE Raised
             head == BuildMessage("AssetMetadata",
                               << Field("asset_id", "", "thing_id", F0),
                                  Field("type", "asset_type", "str", JStr(<< >>)) >>,
                               attributes, thing_id)
         IN  IF ~point.ok \/ ~head.ok THEN Fail(r)
             ELSE Publish(r, "AssetMetadata", thing_id, <<"/", "metadata">>,
                          [kind |-> "AssetMetadata",
                           fields |-> head.val.fields
                                      \o << <<"location", point.val.fields>> >>],
                          refused)

\* one if-block of lines 155-214 and 244-336: one message of the part's kind
ScalarStep(r, part, thing_id, features, refused) ==
    LET feature == Lookup(features, part.key)
        props == Get(feature, "properties", JObj(<< >>))
        built == BuildMessage(part.kind, part.fields, props, thing_id)
    IN  IF ~IsObj(feature) THEN Fail(r)
        ELSE IF ~IsObj(props) THEN Fail(r)
        ELSE IF ~built.ok THEN Fail(r)
        ELSE Publish(r, part.kind, thing_id, part.suffix, built.val, refused)

\* an alert whose message leaves the type of the entry out
AlertEntryNoType(r, part, thing_id, entry, refused) ==
    LET message == entry[2]
        built == BuildMessage(part.kind, part.fields, message, thing_id)
    IN  IF ~IsObj(message) THEN Fail(r)
        ELSE IF ~built.ok THEN Fail(r)
        ELSE Publish(r, part.kind, thing_id, part.suffix,
                     [kind |-> part.kind,
                      fields |-> << <<"message", FormatText(thing_id) \o <<":">> >> >>
                                 \o built.val.fields],
                     refused)

\* the body of the loop of lines 219-227 for one entry of alerts.properties
AlertEntry(r, part, thing_id, entry, refused) ==
    LET message == entry[2]
        built == BuildMessage(part.kind, part.fields, message, thing_id)
        text == FormatText(thing_id) \o <<":">>
                \o FormatText(Get(message, "type", JStr(<<"unknown">>)))
    IN  IF ~IsObj(message) THEN Fail(r)
        ELSE IF ~built.ok THEN Fail(r)
        ELSE Publish(r, part.kind, thing_id, part.suffix,
                     [kind |-> part.kind,
                      fields |-> << <<"message", text>> >> \o built.val.fields],
                     refused)

\* the body of the loop of lines 232-241 for one entry of relationships.properties
RelationshipEntry(r, part, thing_id, entry, refused) ==
    LET rel_data == entry[2]
        built == BuildMessage(part.kind, part.fields, rel_data, thing_id)
    IN  IF ~IsObj(rel_data) THEN Fail(r)
        ELSE IF ~built.ok THEN Fail(r)
        ELSE Publish(r, part.kind, thing_id, part.suffix,
                     [kind |-> part.kind,
                      fields |-> built.val.fields
                                 \o << <<"relationship_type", << entry[1] >> >> >>],
                     refused)

RECURSIVE EntryLoop(_, _, _, _, _, _)
\* for key, value in properties.items(): the entries in the order of the mapping;
\* an exception ends the loop
EntryLoop(r, part, thing_id, entries, i, refused) ==
    IF r.raised \/ i > Len(entries) THEN r
    ELSE CHOOSE r3 \in {EntryLoop(r2, part, thing_id, entries, i + 1, refused) :
            r2 \in {IF part.shape = "alerts"
                    THEN AlertEntry(r, part, thing_id, entries[i], refused)
                    ELSE RelationshipEntry(r, part, thing_id, entries[i], refused)}} : TRUE

\* a router that publishes the first entry of a map-valued feature only
MapStepFirstEntry(r, part, thing_id, features, refused) ==
    LET feature == Lookup(features, part.key)
        props == Get(feature, "properties", JObj(<< >>))
    IN  IF ~IsObj(feature) THEN Fail(r)
        ELSE IF ~IsObj(props) THEN Fail(r)
        ELSE EntryLoop(r, part, thing_id, SubSeq(props.obj, 1, 1), 1, refused)

\* lines 217-241: the two map-valued features
MapStep(r, part, thing_id, features, refused) ==
    LET feature == Lookup(features, part.key)
        props == Get(feature, "properties", JObj(<< >>))
    IN  IF ~IsObj(feature) THEN Fail(r)
        ELSE IF ~IsObj(props) THEN Fail(r)
        ELSE EntryLoop(r, part, thing_id, props.obj, 1, refused)

\* a router that goes on with the next block after an exception
PartStepGoesOn(r, part, thing_id, features, refused) ==
    IF ~IsObj(features) THEN Fail(r)
    ELSE IF ~HasKey(features, part.key) THEN r
    ELSE IF part.shape = "scalar" THEN ScalarStep(r, part, thing_id, features, refused)
    ELSE MapStep(r, part, thing_id, features, refused)

\* one `if '<key>' in features:` block; an exception raised before it skips it
PartStep(r, part, thing_id, features, refused) ==
    IF r.raised THEN r
    ELSE IF ~IsObj(features) THEN Fail(r)
    ELSE IF ~HasKey(features, part.key) THEN r
    ELSE IF part.shape = "scalar" THEN ScalarStep(r, part, thing_id, features, refused)
    ELSE MapStep(r, part, thing_id, features, refused)

RECURSIVE PartsFrom(_, _, _, _, _)
\* the if-blocks from the i-th on, one after the other
PartsFrom(r, i, thing_id, features, refused) ==
    IF i > Len(Parts) THEN r
    ELSE CHOOSE r3 \in {PartsFrom(r2, i + 1, thing_id, features, refused) :
            r2 \in {PartStep(r, Parts[i], thing_id, features, refused)}} : TRUE

\* the try block of lines 126-336
TryBody(thing, b, refused) ==
    LET r0 == [bus |-> b, out |-> << >>, raised |-> FALSE]
    IN  IF ~IsObj(thing) THEN Fail(r0)
        ELSE LET thing_id == Get(thing, "thingId", JStr(<< >>))
                 attributes == Get(thing, "attributes", JObj(<< >>))
                 features == Get(thing, "features", JObj(<< >>))
             IN  CHOOSE r2 \in {PartsFrom(r1, 1, thing_id, features, refused) :
                     r1 \in {LocationStep(r0, thing_id, attributes, refused)}} : TRUE

\* process_thing(thing): the try block, and the except clause of lines 338-341 that
\* logs the exception and ends the call normally.  escaped: an exception leaves
\* the call; errors: the "Error processing thing" lines logged
\* a process_thing whose exceptions reach the caller
ExceptClauseReraise(r) ==
    [bus |-> r.bus, out |-> r.out, errors |-> 0, escaped |-> r.raised]

\* lines 338-341: the exception is logged and the call ends normally
ExceptClause(r) ==
    [bus |-> r.bus, out |-> r.out, errors |-> IF r.raised THEN 1 ELSE 0,
     escaped |-> FALSE]

process_thing(thing, b, refused) ==
    CHOOSE p \in {ExceptClause(r) : r \in {TryBody(thing, b, refused)}} : TRUE

(***************************************************************************)
(* sse_parse (lines 105-120).                                              *)
(*                                                                         *)
(* buffer is the text of line 106: the stripped lines of the block being   *)
(* read, each followed by "\n".  An event is a function from keys to       *)
(* values, both token sequences.                                           *)
(***************************************************************************)
\* lines 115-117 for one piece of the buffer: the pair it adds, if any
HasColon(piece) == IndexOf(piece, ":") # 0

KeyOf(piece) == strip(SubSeq(piece, 1, IndexOf(piece, ":") - 1))

ValueOf(piece) == strip(SubSeq(piece, IndexOf(piece, ":") + 1, Len(piece)))

\* a decoder that keeps the first value of a key
EventOfFirstWins(pieces) ==
    LET pairs == {i \in 1..Len(pieces) : HasColon(pieces[i])}
        firstOf(k) == CHOOSE i \in pairs :
                          /\ KeyOf(pieces[i]) = k
                          /\ \A j \in pairs : KeyOf(pieces[j]) = k => i <= j
    IN  [k \in {KeyOf(pieces[i]) : i \in pairs} |-> ValueOf(pieces[firstOf(k)])]

\* lines 114-117 for the pieces of the buffer: every piece with a ':' sets
\* event[key] = value, a later piece overwriting an earlier one of the same key
EventOf(pieces) ==
    LET pairs == {i \in 1..Len(pieces) : HasColon(pieces[i])}
        lastOf(k) == CHOOSE i \in pairs :
                         /\ KeyOf(pieces[i]) = k
                         /\ \A j \in pairs : KeyOf(pieces[j]) = k => j <= i
    IN  [k \in {KeyOf(pieces[i]) : i \in pairs} |-> ValueOf(pieces[lastOf(k)])]

\* lines 113-117: event = {} filled from buffer.split("\n")
ParseBlock(buffer) ==
    CHOOSE e \in {EventOf(pieces) : pieces \in {split(buffer, "\n")}} : TRUE

\* a decoder that yields the event of every block
YieldsAlways(event) == TRUE

\* line 118: `if event:` an event with no pair is not yielded
Yields(event) == DOMAIN event # {}

\* lines 112-120: a blank line ends the block
EndOfBlock(buffer) ==
    IF buffer # << >>
    THEN [buffer |-> << >>,
          events |-> CHOOSE es \in {IF Yields(e) THEN << e >> ELSE << >> :
                                       e \in {ParseBlock(buffer)}} : TRUE]
    ELSE [buffer |-> buffer, events |-> << >>]

\* lines 108-120 for one line of the stream, already stripped: the buffer
\* afterwards and the events yielded (none or one)
TakeLine(buffer, line) ==
    IF line # << >>
    THEN [buffer |-> buffer \o line \o << "\n" >>, events |-> << >>]
    ELSE EndOfBlock(buffer)

\* line 108: line.decode('utf-8').strip(), then the rest of the loop body
SseLine(buffer, raw) ==
    CHOOSE d \in {TakeLine(buffer, line) : line \in {strip(raw)}} : TRUE

\* a decoder that flushes its buffer when the stream ends
SseEndFlush(buffer) == EndOfBlock(buffer).events

\* the end of `async for line in content` (line 107): the generator returns, and
\* what the buffer holds is dropped with it
SseEnd(buffer) == << >>

(***************************************************************************)
(* json.loads of the data field.  The JSON texts of the model and the      *)
(* value each one denotes; any other text raises JSONDecodeError.          *)
(***************************************************************************)
Props(members) == JObj(<< <<"properties", JObj(members)>> >>)

\* {"thingId":"a","features":{"temperature":{"properties":{"value":"21.5"}}}}
ThingTemp ==
    JObj(<< <<"thingId", JStr(<<"a">>)>>,
            <<"features", JObj(<<
                <<"temperature", Props(<< <<"value", JStr(<<"21", ".", "5">>)>> >>)>> >>)>> >>)

\* a location and a humidity that is no number: the metadata message is
\* published, the humidity block raises
ThingBadHumidity ==
    JObj(<< <<"thingId", JStr(<<"a", ".", "b">>)>>,
            <<"attributes", JObj(<< <<"location", JObj(<< >>)>> >>)>>,
            <<"features", JObj(<<
                <<"humidity", Props(<< <<"value", JStr(<<"hot">>)>> >>)>> >>)>> >>)

\* another identity that sanitizes like a.b, with a location and a status
ThingStatus ==
    JObj(<< <<"thingId", JStr(<<"a", ":", "b">>)>>,
            <<"attributes", JObj(<< <<"location", JObj(<< >>)>> >>)>>,
            <<"features", JObj(<< <<"status", Props(<< >>)>> >>)>> >>)

JsonTexts == <<
    << <<"{", "temp", ":", "}">>, ThingTemp >>,
    << <<"{", "badhum", ":", "}">>, ThingBadHumidity >>,
    << <<"{", "status", ":", "}">>, ThingStatus >>,
    << <<"{", "}">>, JObj(<< >>) >>,
    << <<"1">>, JNum(10) >> >>

IsJson(text) == \E i \in 1..Len(JsonTexts) : JsonTexts[i][1] = strip(text)

\* json.loads(text): [ok, val]; ok is FALSE for JSONDecodeError
json_loads(text) ==
    IF IsJson(text)
    THEN Value(JsonTexts[CHOOSE i \in 1..Len(JsonTexts) : JsonTexts[i][1] = strip(text)][2])
    ELSE Raised

(***************************************************************************)
(* The body of the `async for event` loop (lines 90-98) for one event.     *)
(*   routed   : calls of process_thing                                     *)
(*   warnings : "Received non-JSON data" lines                             *)
(*   errors   : "Error processing thing" lines                             *)
(*   out      : the messages published                                     *)
(*   escaped  : an exception leaves the loop body                          *)
(***************************************************************************)
DataKey == << "data" >>

Handled(b, routed, warnings, errors, out, escaped) ==
    [bus |-> b, routed |-> routed, warnings |-> warnings, errors |-> errors,
     out |-> out, escaped |-> escaped]

\* lines 94-95: the parsed value goes to process_thing
Route(thing, b, refused) ==
    CHOOSE h \in {Handled(p.bus, 1, 0, p.errors, p.out, p.escaped) :
                     p \in {process_thing(thing, b, refused)}} : TRUE

\* a worker that warns of every payload it cannot parse
DecodeErrorAlwaysWarns(data, b) == Handled(b, 0, 1, 0, << >>, FALSE)

\* lines 96-98: JSONDecodeError; a warning unless the data is empty
DecodeError(data, b) ==
    Handled(b, 0, IF data # << >> THEN 1 ELSE 0, 0, << >>, FALSE)

\* lines 92-98 for the data of an event
HandleData(data, parsed, b, refused) ==
    IF parsed.ok THEN Route(parsed.val, b, refused) ELSE DecodeError(data, b)

HandleEvent(event, b, refused) ==
    IF DataKey \notin DOMAIN event
    THEN Handled(b, 0, 0, 0, << >>, FALSE)
    ELSE CHOOSE h \in {HandleData(event[DataKey], parsed, b, refused) :
                          parsed \in {json_loads(event[DataKey])}} : TRUE

\* what two handled events in a row add up to
Both(h, t) ==
    Handled(t.bus, h.routed + t.routed, h.warnings + t.warnings,
            h.errors + t.errors, h.out \o t.out, t.escaped)

RECURSIVE HandleEvents(_, _, _)

\* the events after the first, unless an exception escaped from the first
HandleRest(h, events, refused) ==
    IF h.escaped THEN h
    ELSE CHOOSE r \in {Both(h, t) :
                          t \in {HandleEvents(Tail(events), h.bus, refused)}} : TRUE

\* the loop body for each event yielded, in order
HandleEvents(events, b, refused) ==
    IF events = << >> THEN Handled(b, 0, 0, 0, << >>, FALSE)
    ELSE CHOOSE r \in {HandleRest(h, events, refused) :
                          h \in {HandleEvent(Head(events), b, refused)}} : TRUE

(***************************************************************************)
(* The state.                                                              *)
(***************************************************************************)
VARIABLES
    running,    \* rclpy.ok(): the external running signal
    pc,         \* where the worker (run_sse / subscribe_to_changes) is
    open,       \* the session and the response of the current attempt are open
    buffer,     \* sse_parse's buffer
    bus,        \* _topic_publishers and the channels made and logged
    attempts,   \* connection attempts started so far (saturates at MaxAttempts)
    slept,      \* time slept since the last connection attempt began
    nRead,      \* lines read on the current connection
    bufFrom,    \* the attempts the buffered lines were received on
    last,       \* what the worker's latest step did (see Quiet)
    received,   \* the lines fed to the decoder (decoder specification)
    yielded,    \* the events the decoder yielded for them, in order
    callers,    \* the concurrent callers of get_or_create_publisher
    run,        \* the latest process_thing call (router specification)
    nRouted,    \* process_thing calls made so far
    rawName,    \* the name given to sanitize_topic_name (sanitizer specification)
    sanitized,  \* what sanitize_topic_name returned for it, once and twice over
    at,         \* where the loop of lines 89-98 is (ordering specification)
    current,    \* the event the loop body is handling
    nEvents,    \* events sse_parse has yielded on the connection
    inCall,     \* the process_thing calls in progress, each with what it has
                \* still to publish
    journal     \* the parses and publishes so far, each with its event's number

vars == << running, pc, open, buffer, bus, attempts, slept, nRead, bufFrom,
           last, received, yielded, callers, run, nRouted, rawName, sanitized,
           at, current, nEvents, inCall, journal >>

\* what only the worker's streaming steps change
streamVars == << buffer, nRead, bufFrom >>

decoderVars == << received, yielded >>

routerVars == << run, nRouted >>

sanitizerVars == << rawName, sanitized >>

orderVars == << at, current, nEvents, inCall, journal >>

\* what the worker, the decoder on its own and the concurrent callers leave alone
pureVars == << routerVars, sanitizerVars, orderVars >>

\* the delay of lines 85 and 103
RetryDelay == 5

\* the status of line 83
HTTP_OK == 200

\* the statuses the server answers with
Statuses == {200, 204, 404, 503}

\* the lines a stream can deliver
StreamLines == {
    << >>,
    << " " >>,
    << "ping" >>,
    << "id", ":", "1" >>,
    << "data", ":" >>,
    << "data", ":", " ", "ping" >>,
    << "data", ":", "{", "temp", ":", "}" >>,
    << " ", "data", " ", ":", " ", "{", "badhum", ":", "}", " " >>,
    << "data", ":", "{", "status", ":", "}" >> }

\* the topics create_publisher may refuse at one event (none, or one of them)
RefusedChoices ==
    { {},
      { sanitize_topic_name(<<"a", "/", "sensor", "/", "temperature">>) },
      { sanitize_topic_name(<<"a", ":", "b", "/", "status">>) } }

\* a step that decoded nothing
Quiet(what) ==
    [what |-> what, events |-> << >>, from |-> {}, routed |-> 0, warnings |-> 0,
     errors |-> 0, out |-> << >>, made |-> 0, status |-> 0]

Min(a, b) == IF a < b THEN a ELSE b

BlockLines(buf) == Cardinality({i \in 1..Len(buf) : buf[i] = "\n"})

WorkerInit ==
    /\ running = TRUE
    /\ pc = "loop"
    /\ open = FALSE
    /\ buffer = << >>
    /\ bus = EmptyBus
    /\ attempts = 0
    /\ slept = 0
    /\ nRead = 0
    /\ bufFrom = {}
    /\ last = Quiet("init")
    /\ received = << >>
    /\ yielded = << >>

\* no process_thing call was made outside the stream loop
RouterIdle ==
    /\ run = [done |-> FALSE]
    /\ nRouted = 0

\* sanitize_topic_name was not called on its own
SanitizerIdle ==
    /\ rawName = << >>
    /\ sanitized = [done |-> FALSE]

\* the loop of lines 89-98 awaits the first line of a connection
OrderIdle ==
    /\ at = "await_line"
    /\ current = << >>
    /\ nEvents = 0
    /\ inCall = << >>
    /\ journal = << >>

Init ==
    /\ WorkerInit
    /\ callers = << >>
    /\ RouterIdle
    /\ SanitizerIdle
    /\ OrderIdle

(***************************************************************************)
(* subscribe_to_changes (lines 71-103), run by run_sse (lines 66-69).      *)
(***************************************************************************)
\* a loop that never reads the running signal
WhileConditionIgnored(signal) == TRUE

\* line 78: the condition of the while loop is the running signal as it is now
WhileCondition(signal) == signal

\* line 78: `while rclpy.ok()`; a true signal starts the next attempt (lines
\* 80-82: the request is sent), a false one ends the loop and run_sse returns
LoopCheck ==
    /\ pc = "loop"
    /\ IF WhileCondition(running)
       THEN /\ pc' = "connecting"
            /\ attempts' = Min(attempts + 1, MaxAttempts)
            /\ slept' = 0
       ELSE /\ pc' = "done"
            /\ UNCHANGED << attempts, slept >>
    /\ last' = Quiet("check")
    /\ UNCHANGED << running, open, bus, streamVars, decoderVars, callers, pureVars >>

\* line 106: sse_parse starts with an empty buffer of its own
FreshBuffer == << >>

\* a worker that takes every 2xx status for a success
AfterResponseAny2xx(status) ==
    IF status \notin 200..299 THEN "sleep_fail" ELSE "streaming"

\* where a response with this status leads (lines 83-88)
AfterResponse(status) == IF status # HTTP_OK THEN "sleep_fail" ELSE "streaming"

\* line 82: the response arrives.  Line 83 sends any status but 200 to the error
\* log and the sleep of line 85; 200 starts sse_parse (line 89, buffer = "")
Respond(status) ==
    /\ pc = "connecting"
    /\ pc' = AfterResponse(status)
    /\ open' = TRUE
    /\ buffer' = FreshBuffer
    /\ bufFrom' = {}
    /\ nRead' = 0
    /\ last' = [Quiet("response") EXCEPT !.status = status,
                   !.errors = IF AfterResponse(status) = "streaming" THEN 0 ELSE 1]
    /\ UNCHANGED << running, bus, attempts, slept, decoderVars, callers, pureVars >>

\* a worker with no except clause: the exception leaves subscribe_to_changes
AfterExceptionPropagates == "crashed"

\* where an exception raised inside the try block of lines 79-98 leads: the except
\* clause of line 99 logs it, and the worker goes on to line 102
AfterException == "sleep_retry"

\* session.get raises (no route, refused, timeout): no response was opened
ConnectFail ==
    /\ pc = "connecting"
    /\ pc' = AfterException
    /\ open' = FALSE
    /\ last' = [Quiet("connect_error") EXCEPT !.errors = 1]
    /\ UNCHANGED << running, bus, attempts, slept, streamVars, decoderVars, callers, pureVars >>

\* `async with` blocks that leave the session and the response as they are
KeepOnExit(isOpen) == isOpen

\* lines 81-82: leaving the two `async with` blocks, by `continue`, by an
\* exception or at the end of the stream, closes the response and the session
CloseOnExit(isOpen) == FALSE

\* a failure path without the `continue`: the worker falls through to line 102
AfterFailSleepNoContinue == "sleep_retry"

\* line 85 then line 86: the sleep inside the `async with` blocks, then `continue`
\* leaves them (closing response and session) for line 78
AfterFailSleep == "loop"

SleepAfterFailure ==
    /\ pc = "sleep_fail"
    /\ slept' = slept + RetryDelay
    /\ pc' = AfterFailSleep
    /\ open' = CloseOnExit(open)
    /\ last' = Quiet("sleep")
    /\ UNCHANGED << running, bus, attempts, streamVars, decoderVars, callers, pureVars >>

\* lines 102-103: "Reconnecting in 5 seconds", the sleep, and back to line 78
SleepBeforeRetry ==
    /\ pc = "sleep_retry"
    /\ slept' = slept + RetryDelay
    /\ pc' = "loop"
    /\ last' = Quiet("sleep")
    /\ UNCHANGED << running, open, bus, attempts, streamVars, decoderVars, callers, pureVars >>

\* lines 107-120 and 89-98 for one line of the stream: the decoder takes the line,
\* and the loop body handles the event it yields, if any, before the next line is
\* awaited.  An exception that leaves the loop body ends the connection.
ReadLine(raw, refused) ==
    /\ pc = "streaming"
    /\ nRead < MaxLines
    /\ strip(raw) # << >> => BlockLines(buffer) < MaxBlock
    /\ \E d \in {SseLine(buffer, raw)} :
       \E h \in {HandleEvents(d.events, bus, refused)} :
       \E from \in {IF strip(raw) # << >> THEN bufFrom \cup {attempts} ELSE bufFrom} :
           /\ buffer' = d.buffer
           /\ bufFrom' = IF d.buffer = << >> THEN {} ELSE from
           /\ bus' = h.bus
           /\ last' = [what |-> "line", events |-> d.events,
                       from |-> IF d.events = << >> THEN {} ELSE from,
                       routed |-> h.routed, warnings |-> h.warnings,
                       errors |-> h.errors, out |-> h.out,
                       made |-> h.bus.n - bus.n, status |-> 0]
           /\ pc' = IF h.escaped THEN AfterException ELSE "streaming"
           /\ open' = IF h.escaped THEN CloseOnExit(open) ELSE open
    /\ nRead' = nRead + 1
    /\ UNCHANGED << running, attempts, slept, decoderVars, callers, pureVars >>

\* the stream ends (the server closes it): sse_parse returns, the `async with`
\* blocks are left, and the worker goes on to line 102
StreamEnd ==
    /\ pc = "streaming"
    /\ \E h \in {HandleEvents(SseEnd(buffer), bus, {})} :
           /\ bus' = h.bus
           /\ last' = [what |-> "end", events |-> SseEnd(buffer),
                       from |-> IF SseEnd(buffer) = << >> THEN {} ELSE bufFrom,
                       routed |-> h.routed, warnings |-> h.warnings,
                       errors |-> h.errors, out |-> h.out,
                       made |-> h.bus.n - bus.n, status |-> 0]
    /\ pc' = "sleep_retry"
    /\ open' = CloseOnExit(open)
    /\ UNCHANGED << running, attempts, slept, streamVars, decoderVars, callers, pureVars >>

\* reading the stream raises (connection reset, payload error, bytes that are not
\* UTF-8): the except clause of line 99 logs it
StreamFail ==
    /\ pc = "streaming"
    /\ pc' = AfterException
    /\ open' = CloseOnExit(open)
    /\ last' = [Quiet("stream_error") EXCEPT !.errors = 1]
    /\ UNCHANGED << running, bus, attempts, slept, streamVars, decoderVars, callers, pureVars >>

\* rclpy.shutdown() in the main thread (line 353): the signal goes false for good
Shutdown ==
    /\ running
    /\ running' = FALSE
    /\ UNCHANGED << pc, open, bus, attempts, slept, streamVars, last,
                    decoderVars, callers, pureVars >>

Worker ==
    \/ LoopCheck
    \/ SleepAfterFailure
    \/ SleepBeforeRetry

Network ==
    \/ \E status \in Statuses : Respond(status)
    \/ ConnectFail
    \/ \E raw \in StreamLines, refused \in RefusedChoices : ReadLine(raw, refused)
    \/ StreamEnd
    \/ StreamFail

Next == Worker \/ Network \/ Shutdown

Spec == Init /\ [][Next]_vars

\* the worker's own steps are taken once they can be: the event loop resumes the
\* coroutine when its sleep is over, and line 78 follows at once
FairSpec == Spec /\ WF_vars(Worker)

(***************************************************************************)
(* The decoder alone: sse_parse fed any sequence of lines.                 *)
(***************************************************************************)
\* sse_parse takes the next line of the stream
Feed(raw) ==
    /\ Len(received) < MaxInput
    /\ \E d \in {SseLine(buffer, raw)} :
           /\ buffer' = d.buffer
           /\ yielded' = yielded \o d.events
    /\ received' = Append(received, raw)
    /\ UNCHANGED << running, pc, open, bus, attempts, slept, nRead, bufFrom,
                    last, callers, pureVars >>

DecoderNext == \E raw \in StreamLines : Feed(raw)

DecoderSpec == Init /\ [][DecoderNext]_vars

(***************************************************************************)
(* get_or_create_publisher called from several threads at once: the steps   *)
(* of lines 58-64, which nothing in the method makes atomic.               *)
(***************************************************************************)
Callers == 1..2

\* the calls the callers make: message kind and raw topic name
Requests == {
    << "MachineStatus", <<"a", ".", "b", "/", "status">> >>,
    << "MachineStatus", <<"a", ":", "b", "/", "status">> >>,
    << "Temperature", <<"a", "/", "sensor", "/", "temperature">> >> }

Idle(calls) ==
    [at |-> "idle", kind |-> "", topic |-> << >>, made |-> << >>, got |-> << >>,
     calls |-> calls]

ConcInit ==
    /\ WorkerInit
    /\ callers = [c \in Callers |-> Idle(0)]
    /\ RouterIdle
    /\ SanitizerIdle
    /\ OrderIdle

ConcStep(c, next) ==
    /\ callers' = [callers EXCEPT ![c] = next]
    /\ UNCHANGED << running, pc, open, attempts, slept, streamVars, last,
                    decoderVars, pureVars >>

\* line 58: the call begins and the name is sanitized
Call(c, request) ==
    /\ callers[c].at = "idle"
    /\ callers[c].calls < MaxCalls
    /\ ConcStep(c, [callers[c] EXCEPT !.at = "check",
                                      !.kind = request[1],
                                      !.topic = sanitize_topic_name(request[2]),
                                      !.got = << >>])
    /\ UNCHANGED bus

\* line 60: the membership test
Check(c) ==
    /\ callers[c].at = "check"
    /\ ConcStep(c, [callers[c] EXCEPT
                       !.at = IF MustCreate(bus, callers[c].topic)
                              THEN "create" ELSE "return"])
    /\ UNCHANGED bus

\* line 61, right-hand side: create_publisher makes a channel
Create(c) ==
    /\ callers[c].at = "create"
    /\ bus' = MakeChannel(bus, callers[c].topic)
    /\ ConcStep(c, [callers[c] EXCEPT
                       !.at = "store",
                       !.made = NewHandle(bus, callers[c].kind, callers[c].topic)])

\* line 61, the assignment: the handle is recorded
Store(c) ==
    /\ callers[c].at = "store"
    /\ bus' = StorePublisher(bus, callers[c].topic, callers[c].made)
    /\ ConcStep(c, [callers[c] EXCEPT !.at = "log"])

\* line 62
Log(c) ==
    /\ callers[c].at = "log"
    /\ bus' = LogCreation(bus, callers[c].topic)
    /\ ConcStep(c, [callers[c] EXCEPT !.at = "return"])

\* line 64: the recorded handle is read and returned
Return(c) ==
    /\ callers[c].at = "return"
    /\ ConcStep(c, [callers[c] EXCEPT
                       !.at = "idle",
                       !.got = ReturnPublisher(bus, callers[c].topic).pub,
                       !.calls = callers[c].calls + 1])
    /\ UNCHANGED bus

ConcNext ==
    \E c \in Callers :
        \/ \E request \in Requests : Call(c, request)
        \/ Check(c)
        \/ Create(c)
        \/ Store(c)
        \/ Log(c)
        \/ Return(c)

ConcSpec == ConcInit /\ [][ConcNext]_vars

(***************************************************************************)
(* process_thing on its own: things routed one after the other on one      *)
(* registry.                                                               *)
(***************************************************************************)
\* a thing payload: thingId, attributes and features (lines 130-132)
Thing(id, attrs, feats) ==
    JObj(<< <<"thingId", JStr(id)>>, <<"attributes", JObj(attrs)>>,
            <<"features", JObj(feats)>> >>)

\* the keys of the if-blocks that publish one message
ScalarKeys == {Parts[i].key : i \in {j \in 1..Len(Parts) : Parts[j].shape = "scalar"}}

Loc(members) == << <<"location", JObj(members)>> >>

TwoAlerts ==
    <<"alerts", Props(<< <<"m1", JObj(<< <<"type", JStr(<<"fire">>)>>,
                                         <<"severity", JNum(20)>> >>)>>,
                         <<"m2", JObj(<< <<"type", JStr(<<"flood">>)>> >>)>> >>)>>

\* two entries of one type, told apart by their keys and severities only
TwoAlertsOfOneType ==
    <<"alerts", Props(<< <<"m1", JObj(<< <<"type", JStr(<<"fire">>)>> >>)>>,
                         <<"m2", JObj(<< <<"type", JStr(<<"fire">>)>>,
                                         <<"severity", JNum(30)>> >>)>> >>)>>

\* two entries without a type
TwoAlertsUntyped ==
    <<"alerts", Props(<< <<"m1", JObj(<< >>)>>,
                         <<"m2", JObj(<< <<"severity", JNum(30)>> >>)>> >>)>>

\* the second entry has a severity that is no number
AlertsSecondBad ==
    <<"alerts", Props(<< <<"m1", JObj(<< <<"type", JStr(<<"fire">>)>> >>)>>,
                         <<"m2", JObj(<< <<"severity", JStr(<<"hot">>)>> >>)>> >>)>>

TwoRelationships ==
    <<"relationships",
      Props(<< <<"partOf", JObj(<< <<"target", JStr(<<"b">>)>> >>)>>,
               <<"a", JObj(<< >>)>> >>)>>

\* every feature of the table, each with empty properties but the two maps
EveryFeature ==
    << <<"production", Props(<< >>)>>, <<"energy", Props(<< >>)>>,
       <<"water", Props(<< >>)>>, <<"crop", Props(<< >>)>>,
       <<"traffic", Props(<< >>)>>, <<"environment", Props(<< >>)>>,
       <<"status", Props(<< >>)>>, TwoRelationships, TwoAlerts,
       <<"imu", Props(<< >>)>>, <<"pressure", Props(<< >>)>>,
       <<"humidity", Props(<< >>)>>, <<"traffic_light_status", Props(<< >>)>>,
       <<"temperature", Props(<< >>)>>, <<"foo", Props(<< >>)>> >>

\* payloads whose values all have the types the table asks for
GoodThings ==
    {Thing(<<"a">>, << >>, << <<k, Props(<< >>)>> >>) : k \in ScalarKeys}
    \cup {Thing(<<"t1">>, << >>, << <<k, JObj(<< >>)>> >>) :
             k \in {"status", "water", "traffic_light_status"}}
    \cup {
      JObj(<< >>),
      Thing(<<"a">>, << >>, << >>),
      Thing(<<"a">>, << >>, << <<"foo", Props(<< <<"value", JNum(10)>> >>)>> >>),
      Thing(<<"org", ".", "x", ":", "dev1">>, << >>,
            << <<"temperature", Props(<< <<"value", JStr(<<"21", ".", "5">>)>> >>)>> >>),
      Thing(<<"a">>, << >>, << <<"status", Props(<< <<"uptime", JNum(30)>> >>)>> >>),
      Thing(<<"a">>, << >>,
            << <<"water", Props(<< <<"valve_open", JBool(TRUE)>>,
                                   <<"flow", JNum(215)>> >>)>> >>),
      Thing(<<"a">>, << >>,
            << <<"crop", Props(<< <<"type", JStr(<<"a">>)>> >>)>> >>),
      Thing(<<"a">>, Loc(<< >>), << >>),
      Thing(<<"a", ".", "b">>,
            Loc(<< <<"longitude", JNum(215)>> >>) \o << <<"asset_type", JStr(<<"b">>)>> >>,
            << <<"status", Props(<< >>)>> >>),
      Thing(<<"a", ":", "b">>, Loc(<< >>), << <<"status", Props(<< >>)>> >>),
      Thing(<<"a", "/", "sensor">>, << >>,
            << <<"status", Props(<< >>)>>, <<"temperature", Props(<< >>)>> >>),
      Thing(<<"a">>, << >>, << TwoAlerts >>),
      Thing(<<"a">>, << >>, << TwoAlertsOfOneType >>),
      Thing(<<"a">>, << >>, << TwoAlertsUntyped >>),
      Thing(<<"a">>, << >>, << TwoRelationships >>),
      Thing(<<"a">>, Loc(<< >>), EveryFeature) }

\* payloads with a value no coercion accepts
BadThings == {
    Thing(<<"a">>, Loc(<< <<"latitude", JStr(<<"hot">>)>> >>),
          << <<"temperature", Props(<< >>)>> >>),
    Thing(<<"a">>, Loc(<< >>),
          << <<"pressure", Props(<< >>)>>,
             <<"humidity", Props(<< <<"value", JStr(<<"hot">>)>> >>)>>,
             <<"temperature", Props(<< >>)>> >>),
    Thing(<<"a">>, << >>,
          << <<"status", Props(<< >>)>>, AlertsSecondBad,
             <<"imu", Props(<< >>)>> >>),
    Thing(<<"a">>, << >>,
          << <<"energy", Props(<< >>)>>,
             <<"production", Props(<< <<"units", JStr(<<"21", ".", "5">>)>> >>)>> >>) }

Things == GoodThings \cup BadThings

\* the topics create_publisher may refuse during one call (none, or one)
RouterRefused ==
    { {}, { sanitize_topic_name(<<"a", "/", "sensor", "/", "pressure">>) } }

\* one process_thing call (line 95), and what it did
RouteThing(thing, refused) ==
    /\ nRouted < MaxRouted
    /\ \E p \in {process_thing(thing, bus, refused)} :
           /\ run' = [done |-> TRUE, thing |-> thing, refused |-> refused,
                      before |-> bus, out |-> p.out, errors |-> p.errors,
                      escaped |-> p.escaped]
           /\ bus' = p.bus
    /\ nRouted' = nRouted + 1
    /\ UNCHANGED << running, pc, open, attempts, slept, streamVars, last,
                    decoderVars, callers, sanitizerVars, orderVars >>

RouterNext == \E thing \in Things, refused \in RouterRefused : RouteThing(thing, refused)

RouterSpec == Init /\ [][RouterNext]_vars

(***************************************************************************)
(* The loop of lines 89-98 on one connection, step by step: sse_parse is    *)
(* resumed for the next line only when the loop body asks for the next      *)
(* event, and the publishes of one process_thing call are separate steps.   *)
(***************************************************************************)
\* a loop body that starts process_thing as a task of its own and goes on
AfterCallDetached == "await_line"

\* line 95: `await self.process_thing(thing_data)`; the loop body goes on when
\* the call has returned
AfterCall == "in_call"

\* lines 107-120: sse_parse takes the next line; an event it yields (line 119)
\* starts the loop body
OrderLine(raw) ==
    /\ at = "await_line"
    /\ nRead < MaxLines
    /\ strip(raw) # << >> => BlockLines(buffer) < MaxBlock
    /\ \E d \in {SseLine(buffer, raw)} :
           /\ buffer' = d.buffer
           /\ IF d.events = << >>
              THEN UNCHANGED << at, current, nEvents >>
              ELSE /\ at' = "loop_body"
                   /\ current' = d.events[1]
                   /\ nEvents' = nEvents + 1
    /\ nRead' = nRead + 1
    /\ UNCHANGED << running, pc, open, bus, attempts, slept, bufFrom, last,
                    decoderVars, callers, routerVars, sanitizerVars, inCall, journal >>

\* lines 92-98: the payload is parsed; a parsed thing starts process_thing,
\* anything else ends the loop body
OrderBody ==
    /\ at = "loop_body"
    /\ current' = << >>
    /\ IF DataKey \notin DOMAIN current
       THEN /\ at' = "await_line"
            /\ UNCHANGED << inCall, journal >>
       ELSE \E parsed \in {json_loads(current[DataKey])} :
            /\ journal' = Append(journal, [event |-> nEvents, what |-> "parse"])
            /\ IF parsed.ok
               THEN \E p \in {process_thing(parsed.val, bus, {})} :
                    /\ inCall' = Append(inCall, [event |-> nEvents, left |-> p.out,
                                                 bus |-> p.bus])
                    /\ at' = AfterCall
               ELSE /\ at' = "await_line"
                    /\ UNCHANGED inCall
    /\ UNCHANGED << running, pc, open, bus, attempts, slept, streamVars, last,
                    decoderVars, callers, routerVars, sanitizerVars, nEvents >>

\* pub.publish(msg): the next message of a call in progress goes out
OrderPublish(i) ==
    /\ inCall[i].left # << >>
    /\ journal' = Append(journal, [event |-> inCall[i].event, what |-> "publish"])
    /\ inCall' = [inCall EXCEPT ![i].left = Tail(@)]
    /\ UNCHANGED << running, pc, open, bus, attempts, slept, streamVars, last,
                    decoderVars, callers, routerVars, sanitizerVars, at, current,
                    nEvents >>

\* process_thing returns, and the loop asks sse_parse for the next event
OrderReturn(i) ==
    /\ inCall[i].left = << >>
    /\ bus' = inCall[i].bus
    /\ inCall' = SubSeq(inCall, 1, i - 1) \o SubSeq(inCall, i + 1, Len(inCall))
    /\ at' = IF at = "in_call" THEN "await_line" ELSE at
    /\ UNCHANGED << running, pc, open, attempts, slept, streamVars, last,
                    decoderVars, callers, routerVars, sanitizerVars, current,
                    nEvents, journal >>

OrderNext ==
    \/ \E raw \in StreamLines : OrderLine(raw)
    \/ OrderBody
    \/ \E i \in DOMAIN inCall : OrderPublish(i)
    \/ \E i \in DOMAIN inCall : OrderReturn(i)

OrderSpec == Init /\ [][OrderNext]_vars

(***************************************************************************)
(* sanitize_topic_name on its own, given any short name.                   *)
(***************************************************************************)
\* the tokens the names are made of
NameTokens == {"a", ":", ".", "/", "-", "~", "_"}

RECURSIVE NamesOfLength(_)
NamesOfLength(n) ==
    IF n = 0 THEN { << >> }
    ELSE {Append(s, c) : s \in NamesOfLength(n - 1), c \in NameTokens}

\* every name of up to MaxName tokens, and the name org.acme:thing-1
Names ==
    UNION {NamesOfLength(n) : n \in 0..MaxName}
    \cup { <<"org", ".", "acme", ":", "thing", "-", "1">> }

SanitizerInit ==
    /\ WorkerInit
    /\ callers = << >>
    /\ RouterIdle
    /\ OrderIdle
    /\ rawName \in Names
    /\ sanitized = [done |-> FALSE]

\* sanitize_topic_name(name), and sanitize_topic_name of what it returned
Sanitize ==
    /\ ~sanitized.done
    /\ \E once \in {sanitize_topic_name(rawName)} :
           sanitized' = [done |-> TRUE, once |-> once,
                         twice |-> sanitize_topic_name(once)]
    /\ UNCHANGED << running, pc, open, bus, attempts, slept, streamVars, last,
                    decoderVars, callers, routerVars, orderVars, rawName >>

SanitizerNext == Sanitize

SanitizerSpec == SanitizerInit /\ [][SanitizerNext]_vars

(***************************************************************************)
(* The claims.                                                             *)
(***************************************************************************)
\* the topics a bus state knows of
KnownTopics == DOMAIN bus.reg \cup DOMAIN bus.made \cup DOMAIN bus.logs

\* C1: with the one worker as the only caller, every sanitized topic name that
\* was asked for and granted has exactly one channel made for it, logged once and
\* recorded under that name; every message is published through the handle the
\* registry holds for its topic; and a step never replaces or removes an entry.
C1_OneChannelPerTopic ==
    /\ [](/\ \A t \in KnownTopics :
                /\ t \in DOMAIN bus.reg
                /\ CountOf(bus.made, t) = 1
                /\ CountOf(bus.logs, t) = 1
                /\ bus.reg[t].topic = t
          /\ \A i \in 1..Len(last.out) :
                last.out[i].pub = bus.reg[last.out[i].pub.topic])
    /\ [][\A t \in DOMAIN bus.reg :
              t \in DOMAIN bus'.reg /\ bus'.reg[t] = bus.reg[t]]_vars

\* C1 witness: an event was published without any channel being made, through
\* the channel an earlier event with another thing identity (a.b, then a:b, both
\* /a_b) had created
C1_Witness ==
    /\ last.what = "line"
    /\ last.made = 0
    /\ \E i \in 1..Len(last.out) :
          /\ last.out[i].msg.kind = "AssetMetadata"
          /\ last.out[i].msg.fields[1][2] = <<"a", ":", "b">>
          /\ last.out[i].pub = bus.reg[sanitize_topic_name(<<"a", ".", "b", "/", "metadata">>)]

\* C2: however the steps of concurrent get_or_create_publisher calls interleave,
\* at most one channel is made for a topic, and a call returns the channel the
\* registry holds for the topic.
C2_AtMostOneChannelConcurrently ==
    /\ \A t \in DOMAIN bus.made : bus.made[t] <= 1
    /\ \A c \in DOMAIN callers :
          callers[c].got # << >> => callers[c].got = bus.reg[callers[c].got.topic]

\* an attempt has ended and the worker is in the delay that follows it
AttemptEnded == pc \in {"sleep_fail", "sleep_retry"}

\* C3: the worker ends only when the running signal is false, no failure ever
\* leaves it, and while the signal stays true every ended attempt (bad status,
\* exception while connecting or reading, end of stream) is followed by a new one.
C3_RetriesForever ==
    /\ [](pc = "done" => ~running)
    /\ [](pc # "crashed")
    /\ [](AttemptEnded => <>(pc = "connecting" \/ ~running))

\* C3 witness: a further attempt is under way after an earlier one ended, the
\* signal still true
C3_Witness ==
    /\ pc = "connecting"
    /\ running
    /\ attempts >= 2

\* C4: when the worker comes back to the loop test after an attempt, it has slept
\* the fixed delay exactly once since that attempt began, whatever way the
\* attempt ended and however many attempts there were before.
C4_OneFixedDelay ==
    /\ (pc = "loop" /\ attempts > 0) => slept = RetryDelay
    /\ pc = "sleep_fail" => slept = 0
    /\ pc = "sleep_retry" => slept = 0
    /\ RetryDelay = 5

\* C4 witness: back at the loop test after the second attempt, 5 units slept
C4_Witness ==
    /\ pc = "loop"
    /\ attempts >= 2
    /\ slept = 5
    /\ running

\* C5 as claimed: every 2xx status is followed by Streaming.
C5_Any2xxStreams ==
    (last.what = "response" /\ last.status \in 200..299) => pc = "streaming"

\* C5 amended: status 200, and no other, is followed by Streaming; every other
\* status, the other 2xx ones included, logs an error and goes to the delay.
C5_Only200Streams ==
    last.what = "response" =>
        /\ (last.status = 200 => pc = "streaming" /\ last.errors = 0 /\ buffer = << >>)
        /\ (last.status # 200 => pc = "sleep_fail" /\ last.errors = 1)

\* C5 witness: a 204 answer took the failure path
C5_Witness ==
    /\ last.what = "response"
    /\ last.status = 204
    /\ pc = "sleep_fail"

\* C6: a connection attempt starts only in a step that reads the signal true; the
\* worker ends only with the signal false, with no connection open, and stays
\* ended; and once the signal is false and the worker is in the delay or at the
\* loop test, it ends.
C6_StopsWhenSignalFalse ==
    /\ [][(pc # "connecting" /\ pc' = "connecting") => (pc = "loop" /\ running)]_vars
    /\ [](pc = "done" => ~running /\ ~open)
    /\ [][pc = "done" => pc' = "done"]_vars
    /\ []((~running /\ pc \in {"loop", "sleep_fail", "sleep_retry"}) => <>(pc = "done"))

\* C6 witness: the worker ended after at least one attempt
C6_Witness ==
    /\ pc = "done"
    /\ ~running
    /\ attempts >= 1

\* the lines fed to the decoder by position: blank ones, the blank lines that end
\* a block with at least one non-blank line, the lines of such a block, and those
\* of them that hold a ':'
IsBlank(i) == \A j \in 1..Len(received[i]) : received[i][j] = " "

BlockEnds == {t \in 2..Len(received) : IsBlank(t) /\ ~IsBlank(t - 1)}

LinesOfBlock(t) == {j \in 1..(t - 1) : \A k \in j..(t - 1) : ~IsBlank(k)}

ColonLines(t) ==
    {j \in LinesOfBlock(t) : \E i \in 1..Len(received[j]) : received[j][i] = ":"}

FirstColon(line) ==
    CHOOSE i \in 1..Len(line) : line[i] = ":" /\ \A j \in 1..(i - 1) : line[j] # ":"

ClaimedKey(line) == strip(SubSeq(line, 1, FirstColon(line) - 1))

ClaimedValue(line) == strip(SubSeq(line, FirstColon(line) + 1, Len(line)))

\* the blocks that yield an event, and the n-th of them
YieldingEnds == {t \in BlockEnds : ColonLines(t) # {}}

NthYieldingEnd(n) ==
    CHOOSE t \in YieldingEnds : Cardinality({u \in YieldingEnds : u <= t}) = n

\* C7 as claimed: one event for every blank-terminated block with a non-blank line.
C7_OneEventPerBlock == Len(yielded) = Cardinality(BlockEnds)

\* C7 amended: one event, in stream order, for every blank-terminated block that
\* has a line with a ':' (a block of lines without ':' yields nothing); the keys
\* of the event are the trimmed keys of the block's lines with a ':', each with
\* the trimmed value of the last line of that key; lines without ':' add nothing.
C7_OneEventPerBlockWithPairs ==
    /\ Len(yielded) = Cardinality(YieldingEnds)
    /\ \A n \in 1..Len(yielded) :
          LET t == NthYieldingEnd(n)
          IN  /\ DOMAIN yielded[n] = {ClaimedKey(received[j]) : j \in ColonLines(t)}
              /\ \A j \in ColonLines(t) :
                    (\A k \in ColonLines(t) :
                        ClaimedKey(received[k]) = ClaimedKey(received[j]) => k <= j)
                    => yielded[n][ClaimedKey(received[j])] = ClaimedValue(received[j])

\* C7 witness: two blocks were ended, one of them without any ':' line, and one
\* event was yielded
C7_Witness ==
    /\ Cardinality(BlockEnds) = 2
    /\ Cardinality(YieldingEnds) = 1
    /\ Len(yielded) = 1

\* C8: the end of the stream yields no event and causes no routing; an event is
\* only yielded by a line, and all its lines were received on the current
\* connection, as are all lines the buffer holds while streaming.
C8_PartialBlockDiscarded ==
    /\ last.what = "end" => last.events = << >> /\ last.routed = 0 /\ last.out = << >>
    /\ last.what = "stream_error" => last.events = << >> /\ last.routed = 0
    /\ last.events # << >> => last.what = "line" /\ last.from = {attempts}
    /\ pc = "streaming" => bufFrom \subseteq {attempts}
    /\ (pc = "streaming" /\ nRead = 0) => buffer = << >>

\* C8 witness: the stream just ended with lines buffered, and nothing was yielded
C8_Witness ==
    /\ last.what = "end"
    /\ buffer # << >>
    /\ last.events = << >>
    /\ attempts >= 1

\* the data of the event the latest step yielded
LastData == last.events[1][DataKey]

LastHasData == last.events # << >> /\ DataKey \in DOMAIN last.events[1]

\* C9: a step in which process_thing logged an error leaves the worker streaming
\* with the connection open, no exception leaves the worker, and every event with
\* a parseable payload is routed, whatever failed before it on the connection.
C9_RoutingFailureContained ==
    /\ (last.what = "line" /\ last.errors > 0) => (pc = "streaming" /\ open)
    /\ pc # "crashed"
    /\ (last.what = "line" /\ LastHasData) =>
          (IsJson(LastData) => (last.routed = 1 /\ pc = "streaming"))

\* C9 witness: on the first connection an event was routed and published after a
\* process_thing call had failed: the registry holds /a_b/metadata but not
\* /a_b/status, which only a call that published the metadata of a.b or a:b and
\* then raised (the humidity that is no number, the status channel refused)
\* leaves behind
C9_Witness ==
    /\ attempts = 1
    /\ sanitize_topic_name(<<"a", ".", "b", "/", "metadata">>) \in DOMAIN bus.reg
    /\ sanitize_topic_name(<<"a", ".", "b", "/", "status">>) \notin DOMAIN bus.reg
    /\ last.what = "line"
    /\ last.routed = 1
    /\ last.errors = 0
    /\ last.out # << >>
    /\ last.out[1].msg.kind = "Temperature"
    /\ pc = "streaming"

\* C10: an event without data is skipped; empty data is dropped without a warning;
\* data that is not empty and not JSON is dropped with one warning; parsed data
\* goes to the router once.  A dropped event publishes nothing, makes no channel
\* and leaves the worker streaming.
C10_PayloadTriage ==
    (last.what = "line" /\ last.events # << >>) =>
        /\ Len(last.events) = 1
        /\ ~LastHasData =>
              last.routed = 0 /\ last.warnings = 0 /\ last.out = << >> /\ last.made = 0
        /\ (LastHasData /\ LastData = << >>) =>
              last.routed = 0 /\ last.warnings = 0 /\ last.out = << >> /\ last.made = 0
        /\ (LastHasData /\ LastData # << >> /\ ~IsJson(LastData)) =>
              last.routed = 0 /\ last.warnings = 1 /\ last.out = << >> /\ last.made = 0
        /\ (LastHasData /\ IsJson(LastData)) => last.routed = 1 /\ last.warnings = 0
        /\ last.routed = 0 => pc = "streaming" /\ last.errors = 0

\* C10 witness: a payload that is no JSON was dropped with one warning
C10_Witness ==
    /\ last.what = "line"
    /\ LastHasData
    /\ LastData # << >>
    /\ ~IsJson(LastData)
    /\ last.warnings = 1
    /\ pc = "streaming"

(***************************************************************************)
(* The claims about process_thing on its own.                              *)
(***************************************************************************)
\* the topic suffix the dispatch table gives each feature key
ClaimedSuffix ==
    [k \in {"temperature", "humidity", "pressure", "imu", "environment", "crop",
            "water"} |-> <<"sensor", "/", k>>]
    @@ [k \in {"traffic_light_status", "alerts", "relationships", "status",
               "traffic", "energy", "production"} |-> << k >>]

ClaimedScalarKeys == DOMAIN ClaimedSuffix \ {"alerts", "relationships"}

\* the parts of the thing the latest call was given
RunId == Get(run.thing, "thingId", JStr(<< >>)).str

RunAttributes == Get(run.thing, "attributes", JObj(<< >>))

RunFeatures == Get(run.thing, "features", JObj(<< >>))

\* sanitize(thingId/<suffix>) for a feature key, and for the metadata
ClaimedTopic(k) == sanitize_topic_name(RunId \o <<"/">> \o ClaimedSuffix[k])

MetadataTopic == sanitize_topic_name(RunId \o <<"/", "metadata">>)

\* the entries of a map-valued feature of the thing
EntriesOf(k) == Get(Lookup(RunFeatures, k), "properties", JObj(<< >>)).obj

\* how many messages the claim expects for a feature key, and for the location
ExpectedFor(k) ==
    IF ~HasKey(RunFeatures, k) THEN 0
    ELSE IF k \in ClaimedScalarKeys THEN 1
    ELSE Len(EntriesOf(k))

ExpectedMetadata == IF HasKey(RunAttributes, "location") THEN 1 ELSE 0

\* how many messages the latest call published on a topic
PublishedOn(t) == Cardinality({i \in 1..Len(run.out) : run.out[i].pub.topic = t})

\* the call was given a payload of well-typed values and no channel was refused
RunWellFormed == run.done /\ run.thing \in GoodThings /\ run.refused = {}

\* C11: for a well-formed payload the call publishes one metadata message iff
\* there is a location, one message for each scalar feature kind present, and one
\* for each entry of alerts and of relationships, each on sanitize(thingId/suffix),
\* and nothing else; the registry gains the topics published on and no other.
C11_PublishesPerPart ==
    RunWellFormed =>
        /\ run.errors = 0
        /\ PublishedOn(MetadataTopic) = ExpectedMetadata
        /\ \A k \in DOMAIN ClaimedSuffix : PublishedOn(ClaimedTopic(k)) = ExpectedFor(k)
        /\ \A i \in 1..Len(run.out) :
              run.out[i].pub.topic \in {MetadataTopic}
                                      \cup {ClaimedTopic(k) : k \in DOMAIN ClaimedSuffix}
        /\ DOMAIN bus.reg =
              DOMAIN run.before.reg
              \cup {t \in {MetadataTopic} : ExpectedMetadata = 1}
              \cup {ClaimedTopic(k) : k \in {j \in DOMAIN ClaimedSuffix : ExpectedFor(j) > 0}}
        /\ (ExpectedMetadata = 0 /\ \A k \in DOMAIN ClaimedSuffix : ExpectedFor(k) = 0)
              => (run.out = << >> /\ bus = run.before)

\* C11 witness: a thing with a location, the twelve scalar features, two alerts,
\* two relationships and an unknown feature was routed: seventeen messages
C11_Witness ==
    /\ RunWellFormed
    /\ run.thing = Thing(<<"a">>, Loc(<< >>), EveryFeature)
    /\ Len(run.out) = 17
    /\ PublishedOn(ClaimedTopic("alerts")) = 2
    /\ run.errors = 0

\* the messages the latest call published on the alerts topic, in order
OnAlertsTopic(m) == m.pub.topic = ClaimedTopic("alerts")

AlertsOut == SelectSeq(run.out, OnAlertsTopic)

\* thingId ':' type of an entry of alerts.properties ('unknown' without a type)
ClaimedType(entry) == Get(entry[2], "type", JStr(<<"unknown">>)).str

ClaimedComposite(entry) == RunId \o <<":">> \o ClaimedType(entry)

\* the message string of a published alert
AlertText(m) == m.msg.fields[1][2]

\* the latest call was given a well-formed thing whose alerts have two entries
RunHasTwoAlerts ==
    /\ RunWellFormed
    /\ HasKey(RunFeatures, "alerts")
    /\ Len(EntriesOf("alerts")) = 2

\* C12 as claimed: two alerts entries give two publishes on the alerts topic with
\* two different message strings.
C12_TwoDistinctComposites ==
    RunHasTwoAlerts =>
        /\ Len(AlertsOut) = 2
        /\ AlertsOut[1].pub = AlertsOut[2].pub
        /\ AlertText(AlertsOut[1]) # AlertText(AlertsOut[2])

\* C12 amended: two alerts entries give two publishes through the one channel of
\* the alerts topic, the n-th with the string thingId ':' type of the n-th entry;
\* the two strings differ exactly when the types of the two entries differ.
C12_TwoCompositesByType ==
    RunHasTwoAlerts =>
        /\ Len(AlertsOut) = 2
        /\ AlertsOut[1].pub = AlertsOut[2].pub
        /\ AlertsOut[1].pub = bus.reg[ClaimedTopic("alerts")]
        /\ \A n \in 1..2 :
              /\ AlertsOut[n].msg.fields[1][1] = "message"
              /\ AlertText(AlertsOut[n]) = ClaimedComposite(EntriesOf("alerts")[n])
        /\ (AlertText(AlertsOut[1]) # AlertText(AlertsOut[2]))
              <=> (ClaimedType(EntriesOf("alerts")[1]) # ClaimedType(EntriesOf("alerts")[2]))

\* C12 witness: two alerts of the type fire were published with the same string
C12_Witness ==
    /\ RunHasTwoAlerts
    /\ Len(AlertsOut) = 2
    /\ AlertText(AlertsOut[1]) = <<"a", ":", "fire">>
    /\ AlertText(AlertsOut[2]) = <<"a", ":", "fire">>
    /\ AlertsOut[1].msg # AlertsOut[2].msg

\* the dispatch table's fields for each scalar feature kind, in the table's order:
\* property, type, default (a float is held in tenths, '' is the empty text)
ClaimedFloat(prop) == << prop, "float", 0 >>

ClaimedInt(prop) == << prop, "int", 0 >>

ClaimedFields ==
    [temperature |-> << ClaimedFloat("value") >>,
     humidity |-> << ClaimedFloat("value") >>,
     pressure |-> << ClaimedFloat("value") >>,
     imu |-> << ClaimedFloat("accel_x"), ClaimedFloat("accel_y"), ClaimedFloat("accel_z"),
                ClaimedFloat("gyro_x"), ClaimedFloat("gyro_y"), ClaimedFloat("gyro_z") >>,
     traffic_light_status |-> << << "current_state", "str", <<"unknown">> >>,
                                 ClaimedFloat("time_to_change") >>,
     status |-> << << "value", "str", << >> >>, ClaimedFloat("uptime"),
                   ClaimedFloat("efficiency") >>,
     environment |-> << ClaimedFloat("aqi"), ClaimedFloat("noise"), ClaimedFloat("light"),
                        ClaimedFloat("co2") >>,
     traffic |-> << ClaimedInt("count"), ClaimedFloat("avg_speed"),
                    ClaimedInt("congestion") >>,
     crop |-> << << "type", "str", << >> >>, ClaimedFloat("moisture"), ClaimedFloat("ph"),
                 ClaimedFloat("growth") >>,
     water |-> << ClaimedFloat("level"), ClaimedFloat("flow"), ClaimedFloat("turbidity"),
                  << "valve_open", "bool", FALSE >> >>,
     energy |-> << ClaimedFloat("total"), ClaimedFloat("renewable"),
                   ClaimedFloat("grid_load") >>,
     production |-> << ClaimedInt("units"), ClaimedInt("defects"), ClaimedFloat("oee") >>]

\* the value a well-typed property gives its field
ClaimedFieldValue(type, v) ==
    CASE type = "float" -> IF IsNum(v) THEN v.num ELSE NumeralValue(v.str)
      [] type = "int" -> v.num \div 10
      [] type = "str" -> v.str
      [] type = "bool" -> v.bool

\* the fields of a message that the table fills from properties (machine_id and
\* line_id hold the thing's identity)
IsTabledField(f) == f[1] \notin {"machine_id", "line_id"}

TabledFields(m) == SelectSeq(m.msg.fields, IsTabledField)

\* the message the latest call published for a scalar feature key
MessageFor(k) ==
    run.out[CHOOSE i \in 1..Len(run.out) : run.out[i].pub.topic = ClaimedTopic(k)]

PropertiesOf(k) == Get(Lookup(RunFeatures, k), "properties", JObj(<< >>))

\* C13: for a well-formed thing, every scalar feature kind present yields one
\* message in which each tabled field whose property is absent (all of them when
\* properties is absent or empty) holds the tabled default, and a field whose
\* property is present holds that property's value.
C13_DefaultsFill ==
    RunWellFormed =>
        \A k \in ClaimedScalarKeys :
            HasKey(RunFeatures, k) =>
                /\ run.errors = 0
                /\ PublishedOn(ClaimedTopic(k)) = 1
                /\ Len(TabledFields(MessageFor(k))) = Len(ClaimedFields[k])
                /\ \A i \in 1..Len(ClaimedFields[k]) :
                      TabledFields(MessageFor(k))[i][2] =
                          IF HasKey(PropertiesOf(k), ClaimedFields[k][i][1])
                          THEN ClaimedFieldValue(ClaimedFields[k][i][2],
                                   Lookup(PropertiesOf(k), ClaimedFields[k][i][1]))
                          ELSE ClaimedFields[k][i][3]

\* C13 witness: the status of thing t1 without properties was published with
\* value '', uptime 0.0 and efficiency 0.0
C13_Witness ==
    /\ RunWellFormed
    /\ run.thing = Thing(<<"t1">>, << >>, << <<"status", JObj(<< >>)>> >>)
    /\ Len(run.out) = 1
    /\ run.out[1].msg.fields = << <<"machine_id", <<"t1">> >>, <<"status", << >> >>,
                                  <<"uptime", 0>>, <<"efficiency", 0>> >>

\* C14: whatever things are routed one after the other, every message goes out
\* through a channel that was created with the message's own kind, and the
\* registry holds each channel under its own topic.
C14_OneKindPerTopic ==
    /\ run.done =>
          \A i \in 1..Len(run.out) :
              /\ run.out[i].pub.kind = run.out[i].msg.kind
              /\ run.out[i].pub = bus.reg[run.out[i].pub.topic]
    /\ \A t \in DOMAIN bus.reg : bus.reg[t].topic = t /\ CountOf(bus.made, t) = 1

\* C14 witness: the status of thing a:b went out through the channel that an
\* earlier call had created for the status of another thing of the same
\* sanitized identity
C14_Witness ==
    /\ run.done
    /\ nRouted = 2
    /\ RunId = <<"a", ":", "b">>
    /\ ClaimedTopic("status") \in DOMAIN run.before.reg
    /\ MetadataTopic \in DOMAIN run.before.reg
    /\ bus = run.before
    /\ Len(run.out) = 2
    /\ run.out[2].pub.kind = "MachineStatus"

(***************************************************************************)
(* The claims about the order of the loop's steps.                         *)
(***************************************************************************)
\* C15: at most one process_thing call is in progress; the parses and publishes
\* happen in the order of the events, each publish after the parse of its own
\* event; and the next line is awaited, and the next event handled, only when no
\* call is in progress.
C15_OneEventAtATime ==
    /\ Len(inCall) <= 1
    /\ \A i \in 1..Len(journal) : \A j \in i..Len(journal) :
          journal[i].event <= journal[j].event
    /\ \A j \in 1..Len(journal) :
          /\ journal[j].event \in 1..nEvents
          /\ journal[j].what = "publish" =>
                \E i \in 1..(j - 1) :
                    journal[i] = [event |-> journal[j].event, what |-> "parse"]
    /\ at \in {"await_line", "loop_body"} => inCall = << >>
    /\ at = "in_call" => Len(inCall) = 1 /\ inCall[1].event = nEvents

\* C15 witness: the one publish of the first event, then the parse and the two
\* publishes of the second
C15_Witness ==
    /\ at = "in_call"
    /\ nEvents = 2
    /\ [i \in 1..Len(journal) |-> journal[i].event] = <<1, 1, 2, 2, 2>>
    /\ [i \in 1..Len(journal) |-> journal[i].what]
          = <<"parse", "publish", "parse", "publish", "publish">>
    /\ inCall[1].left = << >>

(***************************************************************************)
(* The claims about sanitize_topic_name.                                   *)
(***************************************************************************)
\* a token of the set {0-9, a-z, A-Z, '_', '/', '~', '{', '}'}
ClaimedAllowed(c) == c \in Words \cup {"_", "/", "~", "{", "}"}

\* 1 when a '/' is due in front of the name, 0 when the name starts with one
ClaimedShift == IF rawName # << >> /\ rawName[1] = "/" THEN 0 ELSE 1

\* C16: the result starts with '/', holds allowed characters only, is the name
\* with every character outside the set (':' and '.' among them) replaced by one
\* '_', and has one '/' in front exactly when the name did not start with one;
\* org.acme:thing-1 gives /org_acme_thing_1.
C16_SanitizedShape ==
    sanitized.done =>
        /\ sanitized.once # << >>
        /\ sanitized.once[1] = "/"
        /\ \A i \in 1..Len(sanitized.once) : ClaimedAllowed(sanitized.once[i])
        /\ Len(sanitized.once) = Len(rawName) + ClaimedShift
        /\ \A i \in 1..Len(rawName) :
              sanitized.once[i + ClaimedShift] =
                  IF ClaimedAllowed(rawName[i]) THEN rawName[i] ELSE "_"
        /\ rawName = <<"org", ".", "acme", ":", "thing", "-", "1">>
              => sanitized.once = <<"/", "org", "_", "acme", "_", "thing", "_", "1">>

\* C16 witness: org.acme:thing-1 was sanitized
C16_Witness ==
    /\ sanitized.done
    /\ rawName = <<"org", ".", "acme", ":", "thing", "-", "1">>
    /\ sanitized.once = <<"/", "org", "_", "acme", "_", "thing", "_", "1">>

\* C17: sanitizing the result again changes nothing.
C17_Idempotent == sanitized.done => sanitized.twice = sanitized.once

\* C17 witness: a name that sanitizing changes (./- gives /_/_) was sanitized
\* twice over
C17_Witness ==
    /\ sanitized.done
    /\ rawName = <<".", "/", "-">>
    /\ sanitized.once = <<"/", "_", "/", "_">>
    /\ sanitized.twice = <<"/", "_", "/", "_">>

(***************************************************************************)
(* The claims about the connection and the order of the parts.             *)
(***************************************************************************)
\* C18: no connection is open while the worker is at the loop test, sending the
\* next request, in the delay of line 103 or ended; a connection is opened only
\* by the answer to a request sent with none open; and lines are read only from
\* the connection of the current attempt.
C18_OneConnection ==
    /\ [](pc \in {"loop", "connecting", "sleep_retry", "done"} => ~open)
    /\ [](pc = "streaming" => open /\ bufFrom \subseteq {attempts})
    /\ [][(open' /\ ~open) => (pc = "connecting" /\ pc' \in {"streaming", "sleep_fail"})]_vars

\* C18 witness: the second connection is open and streaming, the first one
\* having been opened and closed
C18_Witness ==
    /\ pc = "streaming"
    /\ open
    /\ attempts = 2
    /\ nRead >= 1

\* the order of the parts the claim gives, each by the last segment of its topic
ClaimedOrder ==
    << "metadata", "temperature", "traffic_light_status", "humidity", "pressure",
       "imu", "alerts", "relationships", "status", "environment", "traffic",
       "crop", "water", "energy", "production" >>

\* the place in that order of the part a message was published for
Rank(m) ==
    CHOOSE i \in 1..Len(ClaimedOrder) : ClaimedOrder[i] = m.pub.topic[Len(m.pub.topic)]

\* the topic of the i-th part for the thing of the latest call, and the number
\* of messages the thing holds for it
PartTopic(i) == IF i = 1 THEN MetadataTopic ELSE ClaimedTopic(ClaimedOrder[i])

PartExpected(i) == IF i = 1 THEN ExpectedMetadata ELSE ExpectedFor(ClaimedOrder[i])

LinesWithKey(t, k) == {j \in ColonLines(t) : ClaimedKey(received[j]) = k}

LastWithKey(t, k) ==
    CHOOSE j \in LinesWithKey(t, k) : \A i \in LinesWithKey(t, k) : i <= j

\* C20: the event of a block holds, for each key of the block's lines, the one
\* value of the last line with that key; the payload parser is given the value of
\* the block's last data line, so the event is routed exactly when that value is
\* JSON, whatever the earlier data lines of the block held.
C20_LastLineOfAKeyWins ==
    \A n \in 1..Len(yielded) :
        \A k \in {ClaimedKey(received[j]) : j \in ColonLines(NthYieldingEnd(n))} :
            /\ k \in DOMAIN yielded[n]
            /\ yielded[n][k] = ClaimedValue(received[LastWithKey(NthYieldingEnd(n), k)])
            /\ k = DataKey =>
                  /\ HandleEvent(yielded[n], EmptyBus, {}).routed
                        = IF IsJson(ClaimedValue(received[LastWithKey(NthYieldingEnd(n), k)]))
                          THEN 1 ELSE 0
                  /\ HandleEvent(yielded[n], EmptyBus, {}).warnings <= 1

\* C20 witness: a block of two data lines, ping and then a thing, was ended: the
\* event holds the thing, and it is routed
C20_Witness ==
    /\ Len(received) = 3
    /\ received[1] = <<"data", ":", " ", "ping">>
    /\ received[2] = <<"data", ":", "{", "temp", ":", "}">>
    /\ received[3] = << >>
    /\ Len(yielded) = 1
    /\ yielded[1][DataKey] = <<"{", "temp", ":", "}">>
    /\ HandleEvent(yielded[1], EmptyBus, {}).routed = 1

====
